---- MODULE Spec2Model ----
(***************************************************************************)
(* Model of engine/board.py: the conversion between a chess position and   *)
(* its dense array encoding (board_to_tensor, board_to_tensor_extended,    *)
(* tensor_to_board, flip_board_tensor).                                    *)
(*                                                                         *)
(* Array cells are float32 in the source.  Every value the functions       *)
(* write or compare against is a multiple of 1/100 (0.0, 0.5, 1.0,         *)
(* halfmove_clock / 100.0), so a cell is modelled by the exact number of   *)
(* hundredths it stands for: 1.0 is 100, the 0.5 threshold is 50.  The     *)
(* only arithmetic on cells, 1.0 - x, is exact in float32 on 0.0 and 1.0.  *)
(***************************************************************************)
EXTENDS Integers, Sequences, FiniteSets

\* ------------------------------------------------------------------ bounds
\* Longest chain of calls f_k(...f_1(input)) a behaviour makes.
MaxCalls == 2
\* Most pieces an input position holds besides the castling and pawn-push ones.
MaxExtra == 1
\* Most non-zero cells of a hand-made input array.
MaxHot == 2

\* ------------------------------------------------------- program constants
\* np.zeros((12, 8, 8)): number of piece channels, basic encoding.
PieceChannels == 12
\* np.zeros((19, 8, 8)): number of channels, extended encoding.
ExtendedChannels == 19
\* Side length of a plane.
BoardSize == 8
\* 1.0 and 0.0, in hundredths.
One == 100
Zero == 0
\* The decoding threshold 0.5, in hundredths.
Threshold == 50
\* The divisor of halfmove_clock / 100.0.
ClockDivisor == 100
\* channel += 6 for a Black piece; range(6) in flip_board_tensor.
ColorOffset == 6

Ranks == 0 .. (BoardSize - 1)
Files == 0 .. (BoardSize - 1)
\* chess.SQUARES
SQUARES == 0 .. (BoardSize * BoardSize - 1)

\* chess.square_rank, chess.square_file, chess.square
square_rank(square) == square \div BoardSize
square_file(square) == square % BoardSize
square(file, rank) == rank * BoardSize + file

PieceTypes == {"PAWN", "KNIGHT", "BISHOP", "ROOK", "QUEEN", "KING"}
Colors == {"WHITE", "BLACK"}

\* piece_at(square) is None on an empty square.
NoPiece == [piece_type |-> "NONE", color |-> "NONE"]
Piece(piece_type, color) == [piece_type |-> piece_type, color |-> color]
\* board.ep_square is None when there is no en-passant target.
NoSquare == -1

PIECE_TO_CHANNEL ==
    [PAWN |-> 0, KNIGHT |-> 1, BISHOP |-> 2, ROOK |-> 3, QUEEN |-> 4, KING |-> 5]

channel_to_piece ==
    [channel \in 0 .. (PieceChannels - 1) |->
        CASE channel = 0 -> Piece("PAWN", "WHITE")
          [] channel = 1 -> Piece("KNIGHT", "WHITE")
          [] channel = 2 -> Piece("BISHOP", "WHITE")
          [] channel = 3 -> Piece("ROOK", "WHITE")
          [] channel = 4 -> Piece("QUEEN", "WHITE")
          [] channel = 5 -> Piece("KING", "WHITE")
          [] channel = 6 -> Piece("PAWN", "BLACK")
          [] channel = 7 -> Piece("KNIGHT", "BLACK")
          [] channel = 8 -> Piece("BISHOP", "BLACK")
          [] channel = 9 -> Piece("ROOK", "BLACK")
          [] channel = 10 -> Piece("QUEEN", "BLACK")
          [] channel = 11 -> Piece("KING", "BLACK")]

\* ------------------------------------------------------------------ values
\* A chess.Board, as far as this module reads or builds it.
Board(pieces, turn, castling, ep_square, halfmove_clock) ==
    [kind |-> "Board", pieces |-> pieces, turn |-> turn, castling |-> castling,
     ep_square |-> ep_square, halfmove_clock |-> halfmove_clock]

NoCastling == [K |-> FALSE, Q |-> FALSE, k |-> FALSE, q |-> FALSE]

\* chess.Board(fen=None): no pieces, White to move, no rights, no en-passant
\* square, clock 0.
EmptyBoard == Board([s \in SQUARES |-> NoPiece], "WHITE", NoCastling, NoSquare, 0)

\* An np.ndarray of shape (n, 8, 8): data[channel][rank][file].
NdArray(data) == [kind |-> "ndarray", data |-> data]
\* The IndexError numpy raises for an index out of bounds.
IndexError == [kind |-> "IndexError"]

\* np.zeros((n, 8, 8)) and np.zeros_like
ZeroPlane == [r \in Ranks |-> [f \in Files |-> Zero]]
zeros(n) == [c \in 0 .. (n - 1) |-> ZeroPlane]
\* tensor.shape[0]
shape0(data) == Cardinality(DOMAIN data)
\* tensor[c, :, :] = v
Fill(v) == [r \in Ranks |-> [f \in Files |-> v]]
\* np.flip(plane, axis=0)
np_flip(plane) == [r \in Ranks |-> plane[(BoardSize - 1) - r]]

\* ------------------------------------------------------- board_to_tensor
\* Variant: the offset 6 is added for White instead of Black.
PieceChannelWhiteOffset(piece) ==
    PIECE_TO_CHANNEL[piece.piece_type]
        + (IF piece.color = "WHITE" THEN ColorOffset ELSE 0)

\* channel = PIECE_TO_CHANNEL[piece.piece_type]; if Black: channel += 6
PieceChannel(piece) ==
    PIECE_TO_CHANNEL[piece.piece_type]
        + (IF piece.color = "BLACK" THEN ColorOffset ELSE 0)

\* The body of the loop over chess.SQUARES, for one square.
EncodeSquare(board, tensor, sq) ==
    LET piece == board.pieces[sq]
    IN  IF piece # NoPiece
        THEN [tensor EXCEPT ![PieceChannel(piece)][square_rank(sq)][square_file(sq)] = One]
        ELSE tensor

\* for square in chess.SQUARES: the loop state is the array and the square
\* the iteration is at.
RECURSIVE EncodeLoop(_, _)
EncodeLoop(board, st) ==
    IF st.sq \notin SQUARES THEN st.tensor
    ELSE EncodeLoop(board, [tensor |-> EncodeSquare(board, st.tensor, st.sq),
                            sq |-> st.sq + 1])

\* board_to_tensor(board): the data of the (12, 8, 8) array it returns.
board_to_tensor(board) ==
    EncodeLoop(board, [tensor |-> zeros(PieceChannels), sq |-> 0])

\* ----------------------------------------------- board_to_tensor_extended
\* tensor[:12] = board_to_tensor(board)
CopyPieces(tensor, pieces) ==
    [c \in DOMAIN tensor |-> IF c \in DOMAIN pieces THEN pieces[c] ELSE tensor[c]]

\* if board.turn == chess.WHITE: tensor[12, :, :] = 1.0
SideToMove(board, tensor) ==
    IF board.turn = "WHITE" THEN [tensor EXCEPT ![12] = Fill(One)] ELSE tensor

\* Variant: the kingside and queenside planes of each colour are exchanged.
CastlingRightsSwapped(board, tensor) ==
    LET t13 == IF board.castling.Q THEN [tensor EXCEPT ![13] = Fill(One)] ELSE tensor
        t14 == IF board.castling.K THEN [t13 EXCEPT ![14] = Fill(One)] ELSE t13
        t15 == IF board.castling.q THEN [t14 EXCEPT ![15] = Fill(One)] ELSE t14
        t16 == IF board.castling.k THEN [t15 EXCEPT ![16] = Fill(One)] ELSE t15
    IN  t16

\* The four castling-rights planes 13..16.
CastlingRights(board, tensor) ==
    LET t13 == IF board.castling.K THEN [tensor EXCEPT ![13] = Fill(One)] ELSE tensor
        t14 == IF board.castling.Q THEN [t13 EXCEPT ![14] = Fill(One)] ELSE t13
        t15 == IF board.castling.k THEN [t14 EXCEPT ![15] = Fill(One)] ELSE t14
        t16 == IF board.castling.q THEN [t15 EXCEPT ![16] = Fill(One)] ELSE t15
    IN  t16

\* Variant: the column is chosen by the en-passant square's rank.
EnPassantByRank(board, tensor) ==
    IF board.ep_square # NoSquare
    THEN LET ep_file == square_rank(board.ep_square)
         IN  [tensor EXCEPT ![17] =
                [r \in Ranks |-> [f \in Files |-> IF f = ep_file THEN One ELSE @[r][f]]]]
    ELSE tensor

\* if board.ep_square is not None: tensor[17, :, ep_file] = 1.0
EnPassant(board, tensor) ==
    IF board.ep_square # NoSquare
    THEN LET ep_file == square_file(board.ep_square)
         IN  [tensor EXCEPT ![17] =
                [r \in Ranks |-> [f \in Files |-> IF f = ep_file THEN One ELSE @[r][f]]]]
    ELSE tensor

\* min(board.halfmove_clock / 100.0, 1.0), in hundredths.
halfmove_normalized(board) ==
    LET q == (board.halfmove_clock * One) \div ClockDivisor
    IN  IF q < One THEN q ELSE One

\* tensor[18, :, :] = halfmove_normalized
HalfmoveClock(board, tensor) ==
    [tensor EXCEPT ![18] = Fill(halfmove_normalized(board))]

\* board_to_tensor_extended(board): the data of the (19, 8, 8) array.
board_to_tensor_extended(board) ==
    HalfmoveClock(board,
        EnPassant(board,
            CastlingRights(board,
                SideToMove(board,
                    CopyPieces(zeros(ExtendedChannels), board_to_tensor(board))))))

\* -------------------------------------------------------- tensor_to_board
\* Variant: the threshold itself counts as present.
ActiveInclusive(v) == v >= Threshold

\* if tensor[channel, row, col] > 0.5
Active(v) == v > Threshold

\* board.set_piece_at(square, piece): the piece replaces the occupant.
set_piece_at(board, sq, piece) == [board EXCEPT !.pieces[sq] = piece]

\* Variant: row and column are exchanged in chess.square.
DecodeCellTransposed(tensor, board, channel, row, col) ==
    IF Active(tensor[channel][row][col])
    THEN set_piece_at(board, square(row, col), channel_to_piece[channel])
    ELSE board

\* The body of the innermost loop, for one (channel, row, col).
DecodeCell(tensor, board, channel, row, col) ==
    IF Active(tensor[channel][row][col])
    THEN set_piece_at(board, square(col, row), channel_to_piece[channel])
    ELSE board

\* for row in range(8): for col in range(8), as one loop over k = row * 8 + col;
\* the loop state is the board and k.
RECURSIVE DecodeCells(_, _, _)
DecodeCells(tensor, channel, st) ==
    IF st.k \notin SQUARES THEN st.board
    ELSE DecodeCells(tensor, channel,
                     [board |-> DecodeCell(tensor, st.board, channel,
                                           st.k \div BoardSize, st.k % BoardSize),
                      k |-> st.k + 1])

\* for channel in range(12): reading tensor[channel, ...] raises IndexError
\* when the array has no such channel; the loop state is the board and the
\* channel.
RECURSIVE DecodeChannels(_, _)
DecodeChannels(tensor, st) ==
    IF st.channel >= PieceChannels THEN st.board
    ELSE IF st.channel \notin DOMAIN tensor THEN IndexError
    ELSE DecodeChannels(tensor,
                        [board |-> DecodeCells(tensor, st.channel,
                                               [board |-> st.board, k |-> 0]),
                         channel |-> st.channel + 1])

\* Variant: the decoder also restores the side to move from channel 12.
tensor_to_board_with_turn(tensor) ==
    LET board == DecodeChannels(tensor, [board |-> EmptyBoard, channel |-> 0])
    IN  IF board.kind = "Board" /\ 12 \in DOMAIN tensor /\ ~Active(tensor[12][0][0])
        THEN [board EXCEPT !.turn = "BLACK"]
        ELSE board

\* tensor_to_board(tensor): the chess.Board it returns, or the error raised.
tensor_to_board(tensor) ==
    DecodeChannels(tensor, [board |-> EmptyBoard, channel |-> 0])

\* ------------------------------------------------------ flip_board_tensor
\* The two arrays the function works on: its argument `tensor` and the array
\* `flipped` it builds, and whether an IndexError has been raised.
\* flipped = np.zeros_like(tensor): a new array, distinct from the argument.
FlipStart(tensor) ==
    [tensor |-> tensor, flipped |-> zeros(shape0(tensor)), raised |-> FALSE]

\* Variant: the function works in place, so a store also changes the argument.
AssignInPlace(st, dst, plane) ==
    [st EXCEPT !.flipped[dst] = plane, !.tensor[dst] = plane]

\* flipped[dst] = plane: the store goes to `flipped` alone.
Assign(st, dst, plane) == [st EXCEPT !.flipped[dst] = plane]

Raise(st) == [st EXCEPT !.raised = TRUE]
\* Indexing the first axis with c is in bounds.
InBounds(st, c) == c \in DOMAIN st.tensor

\* flipped[dst] = np.flip(tensor[src], axis=0)
MirrorInto(st, dst, src) ==
    IF st.raised THEN st
    ELSE IF ~InBounds(st, src) \/ ~InBounds(st, dst) THEN Raise(st)
    ELSE Assign(st, dst, np_flip(st.tensor[src]))

\* flipped[dst] = tensor[src]
CopyInto(st, dst, src) ==
    IF st.raised THEN st
    ELSE IF ~InBounds(st, src) \/ ~InBounds(st, dst) THEN Raise(st)
    ELSE Assign(st, dst, st.tensor[src])

\* flipped[dst] = 1.0 - tensor[src]
InvertInto(st, dst, src) ==
    IF st.raised THEN st
    ELSE IF ~InBounds(st, src) \/ ~InBounds(st, dst) THEN Raise(st)
    ELSE Assign(st, dst, [r \in Ranks |-> [f \in Files |-> One - st.tensor[src][r][f]]])

\* The body of `for i in range(6)`.
FlipPieceChannels(st, i) ==
    MirrorInto(MirrorInto(st, i, i + ColorOffset), i + ColorOffset, i)

RECURSIVE FlipPieces(_, _)
FlipPieces(st, i) ==
    IF st.raised \/ i >= ColorOffset THEN st
    ELSE FlipPieces(FlipPieceChannels(st, i), i + 1)

\* flipped[12] = 1.0 - tensor[12]
FlipSideToMove(st) == InvertInto(st, 12, 12)

\* Variant: the Black planes are copied onto the White ones but not back.
FlipCastlingOneWay(st) ==
    CopyInto(CopyInto(CopyInto(CopyInto(st, 13, 15), 14, 16), 15, 15), 16, 16)

\* flipped[13] = tensor[15]; [14] = [16]; [15] = [13]; [16] = [14]
FlipCastling(st) ==
    CopyInto(CopyInto(CopyInto(CopyInto(st, 13, 15), 14, 16), 15, 13), 16, 14)

\* Variant: the en-passant plane is copied without the rank mirror.
FlipEnPassantCopy(st) ==
    IF st.raised THEN st
    ELSE IF shape0(st.tensor) > 17 THEN CopyInto(st, 17, 17) ELSE st

\* Variant: the en-passant plane is flipped without the channel-count test.
FlipEnPassantUnguarded(st) == MirrorInto(st, 17, 17)

\* if tensor.shape[0] > 17: flipped[17] = np.flip(tensor[17], axis=0)
FlipEnPassant(st) ==
    IF st.raised THEN st
    ELSE IF shape0(st.tensor) > 17 THEN MirrorInto(st, 17, 17) ELSE st

\* if tensor.shape[0] > 18: flipped[18] = tensor[18]
FlipClock(st) ==
    IF st.raised THEN st
    ELSE IF shape0(st.tensor) > 18 THEN CopyInto(st, 18, 18) ELSE st

\* if tensor.shape[0] > 12: ...
FlipExtended(st) ==
    IF st.raised THEN st
    ELSE IF shape0(st.tensor) > PieceChannels
         THEN FlipClock(FlipEnPassant(FlipCastling(FlipSideToMove(st))))
         ELSE st

\* One run of flip_board_tensor on `tensor`: both arrays as the run leaves them.
FlipRun(tensor) == FlipExtended(FlipPieces(FlipStart(tensor), 0))

\* flip_board_tensor(tensor): the array returned, or the error raised.
flip_board_tensor(tensor) ==
    LET run == FlipRun(tensor)
    IN  IF run.raised THEN IndexError ELSE NdArray(run.flipped)

\* ------------------------------------------------------------------ inputs
AllPieces == {Piece(t, c) : t \in PieceTypes, c \in Colors}
Place(pieces, sq, piece) == [pieces EXCEPT ![sq] = piece]

\* chess.Board(): the starting position.
BackRank == <<"ROOK", "KNIGHT", "BISHOP", "QUEEN", "KING", "BISHOP", "KNIGHT", "ROOK">>
StartingPieces ==
    [s \in SQUARES |->
        CASE square_rank(s) = 0 -> Piece(BackRank[square_file(s) + 1], "WHITE")
          [] square_rank(s) = 1 -> Piece("PAWN", "WHITE")
          [] square_rank(s) = 6 -> Piece("PAWN", "BLACK")
          [] square_rank(s) = 7 -> Piece(BackRank[square_file(s) + 1], "BLACK")
          [] OTHER -> NoPiece]
AllCastling == [K |-> TRUE, Q |-> TRUE, k |-> TRUE, q |-> TRUE]
StartingPosition == Board(StartingPieces, "WHITE", AllCastling, NoSquare, 0)
\* chess.Board() after push_san("e4"): the pawn on e4, e3 the en-passant square.
AfterE4 ==
    Board(Place(Place(StartingPieces, square(4, 1), NoPiece), square(4, 3),
                Piece("PAWN", "WHITE")),
          "BLACK", AllCastling, square(4, 2), 0)
\* "rnbqkbnr/pppppppp/8/8/8/8/PPPPPPPP/RNBQKBN1 w Qkq - 0 1"
NoKingsideRook ==
    Board(Place(StartingPieces, square(7, 0), NoPiece), "WHITE",
          [AllCastling EXCEPT !.K = FALSE], NoSquare, 0)

\* A castling right exists only with the king and that rook on their home
\* squares, so a position that has the right has the pieces.
CastlingPieces(c) ==
    [s \in SQUARES |->
        CASE s = square(4, 0) /\ (c.K \/ c.Q) -> Piece("KING", "WHITE")
          [] s = square(7, 0) /\ c.K -> Piece("ROOK", "WHITE")
          [] s = square(0, 0) /\ c.Q -> Piece("ROOK", "WHITE")
          [] s = square(4, 7) /\ (c.k \/ c.q) -> Piece("KING", "BLACK")
          [] s = square(7, 7) /\ c.k -> Piece("ROOK", "BLACK")
          [] s = square(0, 7) /\ c.q -> Piece("ROOK", "BLACK")
          [] OTHER -> NoPiece]

ClockSamples == {0, 37, 150}
EpFiles == {4, 7}

\* Positions that differ in the game state: every combination of castling
\* rights, with either no en-passant square (any side to move, any clock) or
\* the square a double pawn push leaves (the pusher's opponent to move, the
\* clock reset by the pawn move).
StatePositions ==
    LET Rights == [K : BOOLEAN, Q : BOOLEAN, k : BOOLEAN, q : BOOLEAN]
    IN  {Board(CastlingPieces(c), t, c, NoSquare, h) :
            c \in Rights, t \in Colors, h \in ClockSamples}
        \cup {Board(Place(CastlingPieces(c), square(f, 3), Piece("PAWN", "WHITE")),
                    "BLACK", c, square(f, 2), 0) : c \in Rights, f \in EpFiles}
        \cup {Board(Place(CastlingPieces(c), square(f, 4), Piece("PAWN", "BLACK")),
                    "WHITE", c, square(f, 5), 0) : c \in Rights, f \in EpFiles}

\* Positions that differ in the placement: chess.Board(fen=None) followed by
\* up to n calls of set_piece_at on the sample squares.
SampleSquares == {square(3, 3), square(6, 1)}
RECURSIVE PiecePositions(_)
PiecePositions(n) ==
    IF n = 0 THEN {EmptyBoard}
    ELSE LET less == PiecePositions(n - 1)
         IN  less \cup {set_piece_at(b, sq, pc) :
                            b \in less, sq \in SampleSquares, pc \in AllPieces}

PositionInputs ==
    {StartingPosition, AfterE4, NoKingsideRook}
        \cup StatePositions \cup PiecePositions(MaxExtra)

\* Arrays that are not encodings: a zero array of n channels with up to k
\* cells set, drawn from the sample cells <<channel, rank, file, value>>.
\* The values are 1.0, and 0.5 and 0.51 on either side of the threshold.
SampleHots ==
    { <<3, 0, 4, 100>>, <<9, 0, 4, 51>>, <<11, 0, 4, 50>>, <<0, 6, 2, 100>>,
      <<12, 2, 1, 100>>, <<13, 1, 5, 100>>, <<16, 6, 3, 100>>, <<17, 5, 6, 100>>,
      <<18, 3, 3, 37>>, <<19, 4, 4, 100>> }
ChannelCounts ==
    {ColorOffset - 1} \cup ((PieceChannels - 1) .. (ExtendedChannels + 1))
RECURSIVE HotArrays(_, _)
HotArrays(n, k) ==
    IF k = 0 THEN {zeros(n)}
    ELSE LET less == HotArrays(n, k - 1)
         IN  less \cup {[a EXCEPT ![h[1]][h[2]][h[3]] = h[4]] :
                            a \in less, h \in {g \in SampleHots : g[1] < n}}

ArrayInputs == {NdArray(a) : a \in UNION {HotArrays(n, MaxHot) : n \in ChannelCounts}}

\* ------------------------------------------------------------ state machine
\* vals: the input, then the value each call returned (or the error it
\*       raised); the argument of call i is vals[i], its result vals[i + 1].
\* hist: the functions called, in order.
\* argAfter: the argument object of the last call as that call left it.
VARIABLES vals, hist, argAfter
vars == <<vals, hist, argAfter>>

Last(s) == s[Len(s)]

Init ==
    /\ \E input \in PositionInputs \cup ArrayInputs :
            /\ vals = <<input>>
            /\ argAfter = input
    /\ hist = <<>>

Call(name, result, after) ==
    /\ vals' = Append(vals, result)
    /\ hist' = Append(hist, name)
    /\ argAfter' = after

\* tensor = board_to_tensor(board); the function only reads the board.
BoardToTensor ==
    /\ Len(hist) < MaxCalls
    /\ Last(vals).kind = "Board"
    /\ Call("board_to_tensor", NdArray(board_to_tensor(Last(vals))), Last(vals))

\* tensor = board_to_tensor_extended(board)
BoardToTensorExtended ==
    /\ Len(hist) < MaxCalls
    /\ Last(vals).kind = "Board"
    /\ Call("board_to_tensor_extended",
            NdArray(board_to_tensor_extended(Last(vals))), Last(vals))

\* board = tensor_to_board(tensor); the function only reads the array.
TensorToBoard ==
    /\ Len(hist) < MaxCalls
    /\ Last(vals).kind = "ndarray"
    /\ Call("tensor_to_board", tensor_to_board(Last(vals).data), Last(vals))

\* flipped = flip_board_tensor(tensor)
FlipBoardTensor ==
    /\ Len(hist) < MaxCalls
    /\ Last(vals).kind = "ndarray"
    /\ Call("flip_board_tensor", flip_board_tensor(Last(vals).data),
            NdArray(FlipRun(Last(vals).data).tensor))

Next == BoardToTensor \/ BoardToTensorExtended \/ TensorToBoard \/ FlipBoardTensor

Spec == Init /\ [][Next]_vars

\* ------------------------------------------------------------------ claims
\* The last call: its name, its argument and what it returned.
Called(name) == Len(hist) >= 1 /\ hist[Len(hist)] = name
Arg == vals[Len(hist)]
Res == vals[Len(hist) + 1]
\* The last two calls were f then g.
CalledTwo(f, g) ==
    Len(hist) >= 2 /\ hist[Len(hist) - 1] = f /\ hist[Len(hist)] = g
FirstArg == vals[Len(hist) - 1]

\* The channel numbering as the specification words it: pawn = 0, knight = 1,
\* bishop = 2, rook = 3, queen = 4, king = 5, plus 6 for Black.
TypeOrder == <<"PAWN", "KNIGHT", "BISHOP", "ROOK", "QUEEN", "KING">>
SpecChannel(piece) ==
    (CHOOSE i \in 1 .. 6 : TypeOrder[i] = piece.piece_type) - 1
        + (IF piece.color = "BLACK" THEN 6 ELSE 0)
SpecPiece(channel) ==
    Piece(TypeOrder[(channel % 6) + 1], IF channel < 6 THEN "WHITE" ELSE "BLACK")
Mirror(r) == 7 - r
Max(S) == CHOOSE m \in S : \A k \in S : k <= m
IsPlane(plane, v) == \A r \in Ranks, f \in Files : plane[r][f] = v
Occupied(board) == {s \in SQUARES : board.pieces[s] # NoPiece}
NonZeroCells(data) ==
    {<<c, r, f>> \in (DOMAIN data) \X Ranks \X Files : data[c][r][f] # 0}

\* C1: decoding the basic encoding of a position gives back, at each of the
\* 64 squares, the occupant the position has there (empty, or the same piece
\* type and colour).
C1_RoundTrip ==
    CalledTwo("board_to_tensor", "tensor_to_board") =>
        /\ Res.kind = "Board"
        /\ \A s \in SQUARES : Res.pieces[s] = FirstArg.pieces[s]

C1_Witness ==
    /\ CalledTwo("board_to_tensor", "tensor_to_board")
    /\ FirstArg = StartingPosition
    /\ Res.pieces = StartingPieces

\* C3: in board_to_tensor(p), a cell of an empty square is 0.0 in all 12
\* channels; a cell of a square holding a piece is 1.0 in the channel
\* index(type) + (6 if Black) and 0.0 in the other 11.  So the array holds as
\* many non-zero cells as the position holds pieces: none for the empty
\* position, one for a single piece.
C3_OneHot ==
    Called("board_to_tensor") =>
        /\ Res.kind = "ndarray"
        /\ DOMAIN Res.data = 0 .. 11
        /\ \A r \in Ranks, f \in Files :
              LET piece == Arg.pieces[8 * r + f]
              IN  \A c \in 0 .. 11 :
                     Res.data[c][r][f] =
                        IF piece # NoPiece /\ c = SpecChannel(piece) THEN 100 ELSE 0
        /\ Cardinality(NonZeroCells(Res.data)) = Cardinality(Occupied(Arg))

C3_Witness ==
    /\ Called("board_to_tensor")
    /\ Arg.pieces[8 * 3 + 3] = Piece("QUEEN", "BLACK")
    /\ Cardinality(Occupied(Arg)) = 1
    /\ Res.data[10][3][3] = 100

\* C4: in board_to_tensor_extended(p) each of the channels 12..16 is a
\* constant plane: all 1.0 if its flag is set (12: White to move, 13: White
\* kingside right, 14: White queenside, 15: Black kingside, 16: Black
\* queenside) and all 0.0 if not, whatever the other four flags are.
C4_FlagPlanes ==
    Called("board_to_tensor_extended") =>
        /\ Res.kind = "ndarray"
        /\ DOMAIN Res.data = 0 .. 18
        /\ IsPlane(Res.data[12], IF Arg.turn = "WHITE" THEN 100 ELSE 0)
        /\ IsPlane(Res.data[13], IF Arg.castling.K THEN 100 ELSE 0)
        /\ IsPlane(Res.data[14], IF Arg.castling.Q THEN 100 ELSE 0)
        /\ IsPlane(Res.data[15], IF Arg.castling.k THEN 100 ELSE 0)
        /\ IsPlane(Res.data[16], IF Arg.castling.q THEN 100 ELSE 0)

\* White has lost the kingside right and kept the queenside one, and it is
\* Black's move: channel 13 is zero, channel 14 is full, channel 12 is zero.
C4_Witness ==
    /\ Called("board_to_tensor_extended")
    /\ ~Arg.castling.K /\ Arg.castling.Q /\ Arg.castling.k /\ ~Arg.castling.q
    /\ Arg.turn = "BLACK"
    /\ IsPlane(Res.data[13], 0) /\ IsPlane(Res.data[14], 100)
    /\ IsPlane(Res.data[12], 0)

\* C5: channel 17 of board_to_tensor_extended(p) is 1.0 on every rank of the
\* en-passant square's file and 0.0 in every other file (8 cells in all), and
\* 0.0 everywhere when p has no en-passant square.
C5_EnPassantFile ==
    Called("board_to_tensor_extended") =>
        /\ Res.kind = "ndarray"
        /\ \A r \in Ranks, f \in Files :
              Res.data[17][r][f] =
                 IF Arg.ep_square # NoSquare /\ f = Arg.ep_square % 8 THEN 100 ELSE 0
        /\ Cardinality({<<r, f>> \in Ranks \X Files : Res.data[17][r][f] = 100})
              = IF Arg.ep_square # NoSquare THEN 8 ELSE 0

C5_Witness ==
    /\ Called("board_to_tensor_extended")
    /\ Arg = AfterE4
    /\ \A r \in Ranks : Res.data[17][r][4] = 100 /\ Res.data[17][r][3] = 0

\* A valid array: 12 or 19 channels, piece and flag cells 0.0 or 1.0, clock
\* cells between 0.0 and 1.0.
ValidArray(x) ==
    /\ x.kind = "ndarray"
    /\ DOMAIN x.data \in {0 .. 11, 0 .. 18}
    /\ \A c \in DOMAIN x.data, r \in Ranks, f \in Files :
          IF c = 18 THEN x.data[c][r][f] \in 0 .. 100
          ELSE x.data[c][r][f] \in {0, 100}

\* C2: flipping a valid array of 12 or 19 channels twice gives the array
\* back, equal at every cell of every channel.
C2_Involution ==
    (CalledTwo("flip_board_tensor", "flip_board_tensor") /\ ValidArray(FirstArg)) =>
        Res = FirstArg

\* A 19-channel array with a cell of the Black queenside plane and a cell of
\* the en-passant plane set, flipped twice: the first flip moves both, the
\* second puts them back.
C2_Witness ==
    /\ CalledTwo("flip_board_tensor", "flip_board_tensor")
    /\ ValidArray(FirstArg)
    /\ DOMAIN FirstArg.data = 0 .. 18
    /\ FirstArg.data[16][6][3] = 100 /\ FirstArg.data[17][5][6] = 100
    /\ Arg.data[14][6][3] = 100 /\ Arg.data[17][2][6] = 100
    /\ Res = FirstArg

\* What C6 says of one flip: piece channel i of the result is channel i + 6
\* of the argument with the ranks reversed and the files kept, and the other
\* way round, and the argument is as it was.
SwapsAndMirrors ==
    /\ Res.kind = "ndarray"
    /\ \A i \in 0 .. 5, r \in Ranks, f \in Files :
          /\ Res.data[i][r][f] = Arg.data[i + 6][Mirror(r)][f]
          /\ Res.data[i + 6][r][f] = Arg.data[i][Mirror(r)][f]
    /\ argAfter = Arg

\* C6 as claimed: for every array with at least 12 channels the flip returns
\* the colour-swapped, rank-mirrored piece channels.
C6_AsClaimed ==
    (Called("flip_board_tensor") /\ Cardinality(DOMAIN Arg.data) >= 12) =>
        SwapsAndMirrors

\* C6, amended: for every array with 12 channels or at least 17, the flip
\* returns an array whose piece channel i is channel i + 6 of the argument
\* rank-mirrored (file unchanged) and whose channel i + 6 is channel i
\* rank-mirrored; the argument is never modified, whatever its channel count.
C6_SwapMirror ==
    Called("flip_board_tensor") =>
        /\ argAfter = Arg
        /\ (Cardinality(DOMAIN Arg.data) = 12 \/ Cardinality(DOMAIN Arg.data) >= 17)
              => SwapsAndMirrors

\* A White pawn on rank index 6 of a 17-channel array comes out as a Black
\* pawn on rank index 1 of the same file.
C6_Witness ==
    /\ Called("flip_board_tensor")
    /\ Cardinality(DOMAIN Arg.data) = 17
    /\ Arg.data[0][6][2] = 100
    /\ Res.kind = "ndarray"
    /\ Res.data[6][1][2] = 100 /\ Res.data[0][6][2] = 0

\* C7: for a 19-channel array x and y = flip_board_tensor(x): y[12] is
\* 1 - x[12] cell for cell; y[13] = x[15], y[15] = x[13], y[14] = x[16],
\* y[16] = x[14] with no rank mirror; y[17] is x[17] rank-mirrored; and
\* y[18] = x[18].
C7_ExtendedChannels ==
    (Called("flip_board_tensor") /\ DOMAIN Arg.data = 0 .. 18) =>
        /\ Res.kind = "ndarray"
        /\ DOMAIN Res.data = 0 .. 18
        /\ \A r \in Ranks, f \in Files :
              /\ Res.data[12][r][f] = 100 - Arg.data[12][r][f]
              /\ Res.data[17][r][f] = Arg.data[17][Mirror(r)][f]
        /\ Res.data[13] = Arg.data[15] /\ Res.data[15] = Arg.data[13]
        /\ Res.data[14] = Arg.data[16] /\ Res.data[16] = Arg.data[14]
        /\ Res.data[18] = Arg.data[18]

\* A 19-channel array with one cell set in channel 16 and one in channel 17.
C7_Witness ==
    /\ Called("flip_board_tensor")
    /\ DOMAIN Arg.data = 0 .. 18
    /\ Arg.data[16][6][3] = 100 /\ Arg.data[17][5][6] = 100
    /\ Res.data[14][6][3] = 100 /\ Res.data[16][6][3] = 0
    /\ Res.data[17][2][6] = 100 /\ Res.data[17][5][6] = 0

\* The array x with every cell of the channels above 11 replaced by 1 - cell.
OtherGameState(data) ==
    [c \in DOMAIN data |->
        IF c <= 11 THEN data[c]
        ELSE [r \in Ranks |-> [f \in Files |-> 100 - data[c][r][f]]]]
\* The array x cut down to its channels 0..11.
PieceChannelsOf(data) == [c \in 0 .. 11 |-> data[c]]

\* C8: tensor_to_board reads no channel above 11: the board decoded from an
\* array equals the board decoded from its first 12 channels alone and the
\* board decoded from the array with the higher channels changed; and its
\* side to move, castling rights, en-passant square and halfmove clock are
\* those of an empty board whatever the channels 12..18 hold.
C8_IgnoresGameState ==
    (Called("tensor_to_board") /\ Res.kind = "Board") =>
        /\ Res = tensor_to_board(PieceChannelsOf(Arg.data))
        /\ Res = tensor_to_board(OtherGameState(Arg.data))
        /\ Res.turn = "WHITE"
        /\ Res.castling = [K |-> FALSE, Q |-> FALSE, k |-> FALSE, q |-> FALSE]
        /\ Res.ep_square = NoSquare
        /\ Res.halfmove_clock = 0

\* The extended encoding of the position after 1. e4 (Black to move, all
\* rights, an en-passant square) decoded.
C8_Witness ==
    /\ CalledTwo("board_to_tensor_extended", "tensor_to_board")
    /\ FirstArg = AfterE4
    /\ IsPlane(Arg.data[12], 0) /\ IsPlane(Arg.data[13], 100)
    /\ Res.kind = "Board"
    /\ Res.pieces = AfterE4.pieces
    /\ Res.turn = "WHITE"

\* C9 as claimed: an array whose channel count is not 12 or 19 makes
\* tensor_to_board and flip_board_tensor fail with InvalidShape.
C9_AsClaimed ==
    ((Called("tensor_to_board") \/ Called("flip_board_tensor"))
        /\ Cardinality(DOMAIN Arg.data) \notin {12, 19}) =>
        Res.kind = "InvalidShape"

\* C9, amended: on an (n, 8, 8) array neither function checks the shape.
\* tensor_to_board raises IndexError when n < 12 and otherwise returns a
\* board.  flip_board_tensor raises IndexError when n < 12 or 13 <= n <= 16
\* and otherwise returns an array of n channels, those above 18 all zero.
\* Neither ever fails with InvalidShape.
C9_ShapeHandling ==
    LET n == Cardinality(DOMAIN Arg.data)
    IN  /\ Called("tensor_to_board") =>
              Res.kind = (IF n < 12 THEN "IndexError" ELSE "Board")
        /\ Called("flip_board_tensor") =>
              /\ Res.kind = (IF n < 12 \/ n \in 13 .. 16 THEN "IndexError" ELSE "ndarray")
              /\ Res.kind = "ndarray" =>
                    /\ DOMAIN Res.data = DOMAIN Arg.data
                    /\ \A c \in DOMAIN Res.data : c > 18 => IsPlane(Res.data[c], 0)

\* A 20-channel array with a cell set in channel 19 is flipped without an
\* error, and channel 19 of the result is zero.
C9_Witness ==
    /\ Called("flip_board_tensor")
    /\ DOMAIN Arg.data = 0 .. 19
    /\ Arg.data[19][4][4] = 100
    /\ Res.kind = "ndarray"
    /\ IsPlane(Res.data[19], 0)

\* C10: tensor_to_board puts on square (f, r) the piece of the highest
\* channel among 0..11 whose cell (r, f) is strictly above 0.5, and leaves
\* the square empty when there is none (exactly 0.5 is absent); a cell with
\* several channels above 0.5 is decoded, not reported as an error.
C10_HighestChannelWins ==
    (Called("tensor_to_board") /\ Cardinality(DOMAIN Arg.data) >= 12) =>
        /\ Res.kind = "Board"
        /\ \A r \in Ranks, f \in Files :
              LET active == {c \in 0 .. 11 : Arg.data[c][r][f] > 50}
              IN  Res.pieces[8 * r + f] =
                     IF active = {} THEN NoPiece ELSE SpecPiece(Max(active))

\* Cell e1 holds 1.0 in channel 3 (White rook) and 0.51 in channel 9 (Black
\* rook): the board is returned with the higher channel's piece on e1.
C10_Witness ==
    /\ Called("tensor_to_board")
    /\ DOMAIN Arg.data = 0 .. 11
    /\ Arg.data[3][0][4] = 100 /\ Arg.data[9][0][4] = 51
    /\ Res.kind = "Board"
    /\ Res.pieces[4] = Piece("ROOK", "BLACK")

\* Cell e1 holds 1.0 in channel 3 and exactly 0.5 in channel 11 (Black king):
\* the king is absent and the rook is placed.
C10_AtThreshold ==
    /\ Called("tensor_to_board")
    /\ DOMAIN Arg.data = 0 .. 11
    /\ Arg.data[3][0][4] = 100 /\ Arg.data[11][0][4] = 50
    /\ Res.kind = "Board"
    /\ Res.pieces[4] = Piece("ROOK", "WHITE")

====
